---- MODULE Spec2Model ----
(***************************************************************************)
(* A model of pipeline/recon/nmap.py: the luigi tasks ThreadedNmapScan and *)
(* SearchsploitScan, the chain ParseMasscanOutput -> ThreadedNmapScan ->   *)
(* SearchsploitScan, the thread pool that runs the nmap commands, the      *)
(* parser of the .nmap artifacts and the correlation of the parsed records *)
(* to the Targets of the store.                                            *)
(***************************************************************************)
EXTENDS Integers, Sequences, FiniteSets, TLC

(***************************************************************************)
(* Bounds of the model.                                                    *)
(***************************************************************************)
\* the largest number of (target, protocol) pairs of the input mapping
MaxCmds == 2
\* the number of pipeline invocations (processes) of one behaviour
MaxInvocations == 2
\* the largest threads parameter
MaxThreads == 2
\* the longest artifact, in lines, of the parser's own specification
MaxLen == 3
\* the most calls of one requires() in a behaviour
MaxResolves == 2

(***************************************************************************)
(* Inputs.                                                                 *)
(***************************************************************************)
\* addresses, as the tokens of their text: masscan reports ip addresses,
\* which hold neither "-" nor "nmap."
T1 == <<"10.0.0.1">>
T2 == <<"10.0.0.2">>
Targets == { T1, T2 }
Protocols == { "tcp", "udp" }

\* values of the threads parameter: a value that is no string and no number
\* (None, a list), a string that is no integer numeral ("", "abc", "2.5"),
\* and the integer numerals from "-1" to MaxThreads
ThreadVals ==
    { [kind |-> "NoneType", numeral |-> FALSE, val |-> 0],
      [kind |-> "str", numeral |-> FALSE, val |-> 0] }
    \cup { [kind |-> "str", numeral |-> TRUE, val |-> n] : n \in -1..MaxThreads }

\* the kinds of line of a .nmap artifact: "H" holds PORT, STATE and SERVICE,
\* "E" holds "Service detection performed", "x" and "y" hold neither
LineKinds == { "H", "E", "x", "y" }

\* what an nmap process that exits with status 0 leaves in its .nmap
\* artifact: a port table and the epilog; no port table (no port was found
\* open) and the epilog, which nmap prints whenever -sV was asked for
ToolOutputs == { <<"H", "x", "E">>, <<"x", "E">> }
\* what an nmap process that exits with a non-zero status leaves behind: no
\* artifact at all, or a truncated one
NoFile == <<"-">>
FailedOutputs == { NoFile, <<"H", "x">> }

\* the lines of searchsploit's stdout, as the tokens of their text: " " is
\* white space, "," the separator; "R1" and "R2" are each the text of a
\* dict literal with a Title, a Type and a Path; "bad" is a text that holds
\* Title and is no Python literal (a record cut short, a key and value with
\* no braces); "other" is a text without Title
Recs == { "R1", "R2" }
OtherLine == << " ", "other", "," >>
Cand1 == << " ", "R1", "," >>
Cand2 == << " ", "R2" >>
BadLine == << " ", "bad", "," >>

\* what searchsploit prints for one artifact, in lines: nothing; the
\* records of two matches, all but the last followed by the separator; a
\* candidate line that is no literal before one that is
SsOutputs == { <<>>, << OtherLine, Cand1, Cand2 >>, << BadLine, Cand2 >> }

\* a record line with and without white space before it, between it and
\* the separator and after the separator, with and without the separator
Variants(r) ==
    { lead \o <<r>> \o mid \o sep \o trail :
        lead \in { <<>>, <<" ">> }, mid \in { <<>>, <<" ">> },
        sep \in { <<>>, <<",">> }, trail \in { <<>>, <<" ">> } }

\* stdouts of one candidate line, in every variant, and stdouts in which a
\* candidate line that is no literal stands before, between or after
\* candidate lines that are
SsLineOutputs ==
    { <<v>> : v \in Variants("R1") }
    \cup { << v, Cand2 >> : v \in Variants("R1") }
    \cup { << BadLine, Cand1 >>, << Cand1, BadLine, Cand2 >>, << Cand1, BadLine >> }

\* the stdouts of the searchsploit at hand
Stdouts(kind) == IF kind = "usual" THEN SsOutputs ELSE SsLineOutputs

\* the ports masscan found open, as strings; a protocol is in the mapping
\* when at least one of its ports was found open
Ports == { "22", "80" }
PortSets == (SUBSET Ports) \ { {} }

\* the values of the parameters the tasks of the chain share: two for each
ParamValues ==
    [ results_dir : {"results", "other-results"},
      rate : {"1000"},
      target_file : {"targets", "other-targets"},
      top_ports : {"", "100"},
      interface : {"tun0"},
      ports : {"", "22,80"},
      db_location : {"db.sqlite"} ]

Tasks == { "nmap", "ss" }
\* Python's None, where a Target is expected
None == <<"None">>
\* no exception
NoError == "no error"

VARIABLES
    threadsParam,   \* the threads parameter the pipeline is invoked with
    threads,        \* ThreadedNmapScan.threads, which run() overwrites
    ip_dict,        \* the mapping ParseMasscanOutput pickles: a set of <<target, protocol>>
    store,          \* the addresses of the Targets of the store, in the order of their ids
    nmap_results,   \* Target.nmap_results, per Target: a sequence of texts
    searchsploit_results, \* Target.searchsploit_results, per Target
    masscan,        \* TRUE when ParseMasscanOutput's output exists
    dirExists,      \* TRUE when <results_dir>/nmap-results exists
    files,          \* the artifacts of nmap-results: <<target, protocol>> -> lines
    invocation,     \* the number of the pipeline invocation (process)
    pc,             \* where the control thread of the invocation is
    status,         \* per task: the luigi status in this invocation
    err,            \* per task: the error its run reported, if any
    db,             \* per task instance: its DBManager connection
    highest_id,     \* per task instance: the field __init__ sets
    cmdState,       \* per submitted command: queued, running, done, failed
    runs,           \* per submitted command: the calls of subprocess.run on it so far
    todo,           \* the entries parse_nmap_output's glob loop has not yet visited
    ssTodo,         \* the entries SearchsploitScan.run's glob loop has not yet visited
    sentry,         \* parse_nmap_output's local variable
    nmr,            \* per entry of the glob loop: the text of the NmapResult made of it
    calls,          \* per task: TRUE once it started an external process in this invocation
    appended,       \* per task: TRUE once it appended a store record in this invocation
    completed,      \* per task: the invocation in which a run of it first went through to its end, or 0
    everFailed,     \* per task: TRUE once a run of it has ended with an error
    firstRef,       \* per task: the output reference of the first complete run, if any
    params,         \* the parameters every task of the chain declares, but threads
    ports,          \* the ports of the pickled mapping: <<target, protocol>> -> a set of ports
    ssPrints,       \* what the searchsploit at hand prints: "usual" or "any" stdouts
    nmap_command,   \* run's local variable: the command template
    commands,       \* run's local variable: the list of commands built so far
    cmdTodo,        \* the (target, protocol) pairs run's loops have not yet taken
    resolved,       \* per task: the parent instances its requires() has returned so far
    ssOut,          \* per entry of SearchsploitScan.run's loop: the stdout searchsploit printed
    dbOps           \* per task instance: the number of uses of its DBManager session so far

vars == << threadsParam, threads, ip_dict, store, nmap_results,
           searchsploit_results, masscan, dirExists, files, invocation, pc,
           status, err, db, highest_id, cmdState, runs, todo, ssTodo, sentry, nmr, calls,
           appended, completed, everFailed, firstRef, params, ports, ssPrints,
           nmap_command, commands, cmdTodo, resolved, ssOut, dbOps >>

(***************************************************************************)
(* Pure functions.                                                         *)
(***************************************************************************)
Abs(n) == IF n < 0 THEN -n ELSE n

\* an int() that takes every string for a numeral
IntErrorLax(t) == IF t.kind = "NoneType" THEN "TypeError" ELSE NoError

\* int(self.threads): the exception it raises, if any
IntError(t) == IF t.kind = "NoneType" THEN "TypeError"
               ELSE IF t.kind = "str" /\ ~t.numeral THEN "ValueError"
               ELSE NoError

\* abs(int(self.threads)), when int() raises nothing
Coerced(t) == [kind |-> "int", numeral |-> TRUE, val |-> Abs(t.val)]

RECURSIVE RowsOf(_, _)
RowsOf(tbl, S) == IF S = {} THEN 0
                  ELSE LET x == CHOOSE y \in S : TRUE
                       IN  Len(tbl[x]) + RowsOf(tbl, S \ {x})

\* DBManager.get_highest_id(table): ids are handed out 1, 2, ... and no row
\* is ever deleted, so the highest id of a table is its number of rows
get_highest_id(tbl) == RowsOf(tbl, Targets)

RECURSIVE Without(_, _)
\* str.replace(tok, ""), on a text given as its tokens
Without(s, tok) == IF s = <<>> THEN <<>>
                   ELSE IF Head(s) = tok THEN Without(Tail(s), tok)
                   ELSE <<Head(s)>> \o Without(Tail(s), tok)

RECURSIVE UpTo(_, _)
\* str.split(tok)[0]: the tokens before the first tok
UpTo(s, tok) == IF s = <<>> \/ Head(s) = tok THEN <<>>
                ELSE <<Head(s)>> \o UpTo(Tail(s), tok)

\* the name -oA is given, f"nmap.{target}-{protocol}", which is the stem of
\* the artifacts nmap writes
Stem(e) == <<"nmap.">> \o e[1] \o <<"-", e[2]>>

\* ThreadedNmapScan.output(): the directory <results_dir>/nmap-results
NmapOutput == [path |-> "nmap-results"]

\* entry.stem.replace("nmap.", "").split("-")[0]
NmapEntryAddr(e) == UpTo(Without(Stem(e), "nmap."), "-")

Range(s) == { s[i] : i \in DOMAIN s }

\* the query of both correlations: Target is selected with a filter on
\* IPAddress alone and no join, so its rows are the product of the Targets
\* and the matching IPAddress rows, which SQLite yields in the order of the
\* Target ids: first() is the Target with the lowest id when an IPAddress
\* row matches, and None when none does
QueryTarget(ipaddr) == IF ipaddr \in Range(store) THEN store[1] ELSE None

\* a header line holds PORT, STATE and SERVICE; an epilog line holds
\* "Service detection performed"
IsHeader(line) == line = "H"
IsEpilog(line) == line = "E"

RECURSIVE ParseFrom(_, _, _, _)
\* the loop over the lines of one artifact, from line i on: the text
\* captured, the sentry afterwards and whether text.pop() raised IndexError
ParseFrom(lines, i, text, sen) ==
    IF i > Len(lines) THEN [text |-> text, sentry |-> sen, raised |-> FALSE]
    ELSE LET line == lines[i]
             t1 == IF sen THEN Append(text, line) ELSE text
         IN  IF IsHeader(line) THEN ParseFrom(lines, i + 1, t1, TRUE)
             ELSE IF IsEpilog(line)
                  THEN IF t1 = <<>>
                       THEN [text |-> t1, sentry |-> sen, raised |-> TRUE]
                       ELSE ParseFrom(lines, i + 1, SubSeq(t1, 1, Len(t1) - 1), FALSE)
             ELSE ParseFrom(lines, i + 1, t1, sen)

\* the body of the loop over the artifacts, up to the NmapResult: text
\* starts empty for every entry, sentry is what the entry before left
ParseLines(lines, sen) == ParseFrom(lines, 1, <<>>, sen)

\* SearchsploitScan.output(): the SQLiteTarget, by its arguments
SsOutput == [table |-> "SearchsploitResult", index |-> highest_id.ss]

\* luigi's completion check of ThreadedNmapScan: LocalTarget.exists()
NmapComplete == dirExists

\* SQLiteTarget.exists(), the high-water mark: the table holds rows beyond
\* the index the target was given
SQLiteTargetExists(tbl, index) == get_highest_id(tbl) > index

\* a pool that takes any number of workers
PoolArgAny(n) == TRUE

\* ThreadPoolExecutor(max_workers=n) raises ValueError unless n > 0
PoolArgOk(n) == n > 0

(***************************************************************************)
(* The state after the parameters are fixed and before the first pipeline  *)
(* invocation: an empty results directory, a store that holds the Targets  *)
(* an earlier step created, and no result of any scan.                     *)
(***************************************************************************)
IpDicts == { d \in SUBSET (Targets \X Protocols) : Cardinality(d) <= MaxCmds }

\* the mapping with the two protocols exchanged
SwapProtocols(d) == { <<e[1], IF e[2] = "tcp" THEN "udp" ELSE "tcp">> : e \in d }

\* the number of entries of a mapping for one protocol
CountOf(d, protocol) == Cardinality({ e \in d : e[2] = protocol })

\* the chain treats the two protocols alike but for the scan flag and the
\* file name, so of two mappings that differ only in which protocol is
\* which, one is kept: the one with more tcp entries, or at a tie the one
\* that scans T1 over tcp
ChainDicts ==
    { d \in IpDicts :
        \/ CountOf(d, "tcp") > CountOf(d, "udp")
        \/ d = SwapProtocols(d)
        \/ CountOf(d, "tcp") = CountOf(d, "udp") /\ <<T1, "tcp">> \in d }

\* the Targets an earlier step created, in the order of their ids: none,
\* one, or both (which address came first does not matter, the mappings
\* being all the mappings over both addresses)
Stores == { <<>>, <<T1>>, <<T1, T2>> }

NoInstance == [t \in Tasks |-> "none"]

\* one value of the shared parameters
DefaultParams ==
    [ results_dir |-> "results", rate |-> "1000", target_file |-> "targets",
      top_ports |-> "100", interface |-> "tun0", ports |-> "",
      db_location |-> "db.sqlite" ]

\* no run has been entered and no task built: the locals of the runs are
\* not set, no requires() was called, no session was used
LocalsFresh ==
    /\ nmap_command = <<>>
    /\ commands = <<>>
    /\ cmdTodo = {}
    /\ resolved = [t \in Tasks |-> <<>>]
    /\ ssOut = <<>>
    /\ dbOps = [t \in Tasks |-> 0]
Unscheduled == [t \in {"masscan", "nmap", "ss"} |-> "UNSCHEDULED"]

Init ==
    /\ threadsParam \in ThreadVals
    /\ threads = threadsParam
    /\ ip_dict \in ChainDicts
    /\ store \in Stores
    /\ nmap_results = [t \in Targets |-> <<>>]
    /\ searchsploit_results = [t \in Targets |-> <<>>]
    /\ masscan = FALSE
    /\ dirExists = FALSE
    /\ files = <<>>
    /\ invocation = 1
    /\ pc = "start"
    /\ status = Unscheduled
    /\ err = [t \in Tasks |-> NoError]
    /\ db = NoInstance
    /\ highest_id = [t \in Tasks |-> 0]
    /\ cmdState = <<>>
    /\ runs = <<>>
    /\ todo = {}
    /\ ssTodo = {}
    /\ sentry = FALSE
    /\ nmr = <<>>
    /\ calls = [t \in Tasks |-> FALSE]
    /\ appended = [t \in Tasks |-> FALSE]
    /\ completed = [t \in Tasks |-> 0]
    /\ everFailed = [t \in Tasks |-> FALSE]
    /\ firstRef = [t \in Tasks |-> <<>>]
    /\ params = DefaultParams
    /\ ports = [e \in ip_dict |-> Ports]
    /\ ssPrints = "usual"
    /\ LocalsFresh

inputs == << threadsParam, ip_dict, store, params, ports, ssPrints >>
cmdLocals == << nmap_command, commands, cmdTodo >>
disk == << masscan, dirExists, files >>
tables == << nmap_results, searchsploit_results >>
nmapLocals == << cmdState, runs, sentry, nmr >>
history == << calls, appended, completed, everFailed, firstRef >>

(***************************************************************************)
(* luigi: scheduling.  The requested task, SearchsploitScan, is built and  *)
(* asked whether it is complete; the task it requires is built and asked   *)
(* only when it is not, and so on up the chain.  Building a task runs its  *)
(* __init__, which opens a DBManager and reads the highest NmapResult id.  *)
(***************************************************************************)
Schedule ==
    /\ pc = "start"
    /\ pc' = "run"
    /\ LET hid == get_highest_id(nmap_results)
           ssDone == SQLiteTargetExists(searchsploit_results, hid)
       IN  IF ssDone
           THEN /\ db' = [db EXCEPT !.ss = "open"]
                /\ dbOps' = [dbOps EXCEPT !.ss = 1]
                /\ highest_id' = [highest_id EXCEPT !.ss = hid]
                /\ status' = [Unscheduled EXCEPT !.ss = "COMPLETE"]
           ELSE /\ db' = [nmap |-> "open", ss |-> "open"]
                /\ dbOps' = [nmap |-> 1, ss |-> 1]
                /\ highest_id' = [nmap |-> hid, ss |-> hid]
                /\ status' =
                     IF NmapComplete
                     THEN [Unscheduled EXCEPT !.ss = "PENDING", !.nmap = "COMPLETE"]
                     ELSE [ss |-> "PENDING", nmap |-> "PENDING",
                           masscan |-> IF masscan THEN "COMPLETE" ELSE "PENDING"]
    /\ UNCHANGED << cmdLocals, resolved, ssOut, ssTodo, inputs, threads, disk, tables, invocation, err, nmapLocals,
                    todo, history >>

\* the upstream task: it leaves the pickled mapping behind
RunMasscan ==
    /\ pc = "run"
    /\ status.masscan = "PENDING"
    /\ masscan' = TRUE
    /\ status' = [status EXCEPT !.masscan = "DONE"]
    /\ UNCHANGED << cmdLocals, resolved, ssOut, dbOps, ssTodo, inputs, threads, dirExists, files, tables, invocation, pc,
                    err, db, highest_id, nmapLocals, todo, history >>

\* luigi runs a task when the tasks it requires are done and, at run time,
\* complete
NmapRunnable ==
    /\ pc = "run"
    /\ status.nmap = "PENDING"
    /\ status.masscan \in {"DONE", "COMPLETE"}
    /\ masscan

(***************************************************************************)
(* ThreadedNmapScan.run                                                    *)
(***************************************************************************)
\* int(self.threads) raises TypeError: the error is logged and run returns,
\* which luigi takes for a run that is done
NmapRunTypeError ==
    /\ NmapRunnable
    /\ IntError(threads) = "TypeError"
    /\ err' = [err EXCEPT !.nmap = "logged: threads must be a non-negative integer"]
    /\ everFailed' = [everFailed EXCEPT !.nmap = TRUE]
    /\ status' = [status EXCEPT !.nmap = "DONE"]
    /\ UNCHANGED << cmdLocals, resolved, ssOut, dbOps, ssTodo, inputs, threads, disk, tables, invocation, pc, db,
                    highest_id, nmapLocals, todo, calls, appended, completed, firstRef >>

\* int(self.threads) raises ValueError, which run does not catch
NmapRunValueError ==
    /\ NmapRunnable
    /\ IntError(threads) = "ValueError"
    /\ err' = [err EXCEPT !.nmap = "ValueError: invalid literal for int()"]
    /\ everFailed' = [everFailed EXCEPT !.nmap = TRUE]
    /\ status' = [status EXCEPT !.nmap = "FAILED"]
    /\ UNCHANGED << cmdLocals, resolved, ssOut, dbOps, ssTodo, inputs, threads, disk, tables, invocation, pc, db,
                    highest_id, nmapLocals, todo, calls, appended, completed, firstRef >>

\* threads is coerced, the commands are built, the directory is made, and
\* ThreadPoolExecutor(max_workers=0) raises ValueError
NmapRunPoolError ==
    /\ NmapRunnable
    /\ IntError(threads) = NoError
    /\ ~PoolArgOk(Coerced(threads).val)
    /\ threads' = Coerced(threads)
    /\ dirExists' = TRUE
    /\ err' = [err EXCEPT !.nmap = "ValueError: max_workers must be greater than 0"]
    /\ everFailed' = [everFailed EXCEPT !.nmap = TRUE]
    /\ status' = [status EXCEPT !.nmap = "FAILED"]
    /\ UNCHANGED << cmdLocals, resolved, ssOut, dbOps, ssTodo, inputs, masscan, files, tables, invocation, pc, db,
                    highest_id, nmapLocals, todo, calls, appended, completed, firstRef >>

\* threads is coerced, the commands are built, the directory is made, the
\* pool is made and executor.map submits every command
NmapRunDispatch ==
    /\ NmapRunnable
    /\ IntError(threads) = NoError
    /\ PoolArgOk(Coerced(threads).val)
    /\ threads' = Coerced(threads)
    /\ dirExists' = TRUE
    /\ cmdState' = [e \in ip_dict |-> "queued"]
    /\ runs' = [e \in ip_dict |-> 0]
    /\ status' = [status EXCEPT !.nmap = "DISPATCH"]
    /\ UNCHANGED << cmdLocals, resolved, ssOut, dbOps, ssTodo, inputs, masscan, files, tables, invocation, pc, err, db,
                    highest_id, sentry, nmr, todo, history >>

Running == { e \in DOMAIN cmdState : cmdState[e] = "running" }
Finished == { e \in DOMAIN cmdState : cmdState[e] \in {"done", "failed"} }

\* a pool without a bound on its workers
WorkerAlwaysFree == TRUE

\* a worker of the pool is free when fewer than max_workers commands run
WorkerFree == Cardinality(Running) < threads.val

\* a free worker takes a queued command and subprocess.run starts nmap
WorkerStart(e) ==
    /\ status.nmap = "DISPATCH"
    /\ e \in DOMAIN cmdState
    /\ cmdState[e] = "queued"
    /\ WorkerFree
    /\ cmdState' = [cmdState EXCEPT ![e] = "running"]
    /\ runs' = [runs EXCEPT ![e] = @ + 1]
    /\ calls' = [calls EXCEPT !.nmap = TRUE]
    /\ UNCHANGED << cmdLocals, resolved, ssOut, dbOps, ssTodo, inputs, threads, disk, tables, invocation, pc, status, err,
                    db, highest_id, sentry, nmr, todo, appended,
                    completed, everFailed, firstRef >>

\* a free worker takes a queued command and subprocess.run finds no nmap
\* executable: FileNotFoundError stays in the future, which nobody reads
WorkerNoExecutable(e) ==
    /\ status.nmap = "DISPATCH"
    /\ e \in DOMAIN cmdState
    /\ cmdState[e] = "queued"
    /\ WorkerFree
    /\ cmdState' = [cmdState EXCEPT ![e] = "failed"]
    /\ runs' = [runs EXCEPT ![e] = @ + 1]
    /\ UNCHANGED << cmdLocals, resolved, ssOut, dbOps, ssTodo, inputs, threads, disk, tables, invocation, pc, status, err,
                    db, highest_id, sentry, nmr, todo, history >>

\* a mapping with one more entry
WithEntry(f, e, v) == [x \in DOMAIN f \cup {e} |-> IF x = e THEN v ELSE f[x]]

WriteFile(e, out) == IF out = NoFile THEN files ELSE WithEntry(files, e, out)

\* nmap exits with status 0 and leaves its artifacts
WorkerExitOk(e) ==
    /\ status.nmap = "DISPATCH"
    /\ e \in DOMAIN cmdState
    /\ cmdState[e] = "running"
    /\ \E out \in ToolOutputs : files' = WriteFile(e, out)
    /\ cmdState' = [cmdState EXCEPT ![e] = "done"]
    /\ UNCHANGED runs
    /\ UNCHANGED << cmdLocals, resolved, ssOut, dbOps, ssTodo, inputs, threads, masscan, dirExists, tables, invocation, pc,
                    status, err, db, highest_id, sentry, nmr, todo, history >>

\* nmap exits with a non-zero status, which subprocess.run returns
WorkerExitFail(e) ==
    /\ status.nmap = "DISPATCH"
    /\ e \in DOMAIN cmdState
    /\ cmdState[e] = "running"
    /\ \E out \in FailedOutputs : files' = WriteFile(e, out)
    /\ cmdState' = [cmdState EXCEPT ![e] = "failed"]
    /\ UNCHANGED runs
    /\ UNCHANGED << cmdLocals, resolved, ssOut, dbOps, ssTodo, inputs, threads, masscan, dirExists, tables, invocation, pc,
                    status, err, db, highest_id, sentry, nmr, todo, history >>

\* a pool that is left without waiting, as by shutdown(wait=False)
PoolDrainedNoWait == TRUE

\* leaving the with block is executor.shutdown(wait=True)
PoolDrained == Finished = DOMAIN cmdState

\* the with block is left and parse_nmap_output starts: sentry is set and
\* the directory is globbed
NmapJoin ==
    /\ status.nmap = "DISPATCH"
    /\ PoolDrained
    /\ status' = [status EXCEPT !.nmap = "PARSE"]
    /\ sentry' = FALSE
    /\ todo' = DOMAIN files
    /\ UNCHANGED << cmdLocals, resolved, ssOut, dbOps, ssTodo, inputs, threads, disk, tables, invocation, pc, err, db,
                    highest_id, cmdState, runs, nmr, history >>

(***************************************************************************)
(* ThreadedNmapScan.parse_nmap_output: one action per artifact of the glob *)
(* loop, in whatever order the directory yields them.                      *)
(***************************************************************************)
Parsing(e) ==
    /\ status.nmap = "PARSE"
    /\ e \in todo

\* text.pop() on an empty list: IndexError ends the run
ParseEntryIndexError(e) ==
    /\ Parsing(e)
    /\ ParseLines(files[e], sentry).raised
    /\ err' = [err EXCEPT !.nmap = "IndexError: pop from empty list"]
    /\ everFailed' = [everFailed EXCEPT !.nmap = TRUE]
    /\ todo' = todo \ {e}
    /\ status' = [status EXCEPT !.nmap = "FAILED"]
    /\ UNCHANGED << cmdLocals, resolved, ssOut, dbOps, ssTodo, inputs, threads, disk, tables, invocation, pc, db,
                    highest_id, nmapLocals, calls, appended, completed, firstRef >>

\* first() returns None: tgt.nmap_results raises AttributeError
ParseEntryNoTarget(e) ==
    /\ Parsing(e)
    /\ ~ParseLines(files[e], sentry).raised
    /\ QueryTarget(NmapEntryAddr(e)) = None
    /\ sentry' = ParseLines(files[e], sentry).sentry
    /\ nmr' = WithEntry(nmr, e, ParseLines(files[e], sentry).text)
    /\ err' = [err EXCEPT !.nmap = "AttributeError: 'NoneType' object has no attribute 'nmap_results'"]
    /\ everFailed' = [everFailed EXCEPT !.nmap = TRUE]
    /\ todo' = todo \ {e}
    /\ status' = [status EXCEPT !.nmap = "FAILED"]
    /\ dbOps' = [dbOps EXCEPT !.nmap = @ + 1]
    /\ UNCHANGED << cmdLocals, resolved, ssOut, ssTodo, inputs, threads, disk, tables, invocation, pc, db,
                    highest_id, cmdState, runs, calls, appended, completed, firstRef >>

\* the NmapResult is appended to the Target the query returned and added
ParseEntryAppend(e) ==
    /\ Parsing(e)
    /\ ~ParseLines(files[e], sentry).raised
    /\ QueryTarget(NmapEntryAddr(e)) # None
    /\ nmap_results' = [nmap_results EXCEPT
                          ![QueryTarget(NmapEntryAddr(e))] =
                              Append(@, ParseLines(files[e], sentry).text)]
    /\ sentry' = ParseLines(files[e], sentry).sentry
    /\ nmr' = WithEntry(nmr, e, ParseLines(files[e], sentry).text)
    /\ todo' = todo \ {e}
    /\ appended' = [appended EXCEPT !.nmap = TRUE]
    /\ dbOps' = [dbOps EXCEPT !.nmap = @ + 2]
    /\ UNCHANGED << cmdLocals, resolved, ssOut, ssTodo, inputs, threads, disk, searchsploit_results, invocation, pc,
                    status, err, db, highest_id, cmdState, runs, calls,
                    completed, everFailed, firstRef >>

\* the loop is over: self.db_mgr.close(), and run returns
ParseClose ==
    /\ status.nmap = "PARSE"
    /\ todo = {}
    /\ db' = [db EXCEPT !.nmap = "closed"]
    /\ status' = [status EXCEPT !.nmap = "DONE"]
    /\ completed' = [completed EXCEPT !.nmap = IF @ = 0 THEN invocation ELSE @]
    /\ firstRef' = [firstRef EXCEPT !.nmap = IF @ = <<>> THEN <<NmapOutput>> ELSE @]
    /\ dbOps' = [dbOps EXCEPT !.nmap = @ + 1]
    /\ UNCHANGED << cmdLocals, resolved, ssOut, ssTodo, inputs, threads, disk, tables, invocation, pc, err,
                    highest_id, nmapLocals, todo, calls, appended, everFailed >>

(***************************************************************************)
(* SearchsploitScan.run                                                    *)
(***************************************************************************)
RECURSIVE WithoutPair(_, _, _)
\* str.replace(a + b, ""), on a text given as its tokens
WithoutPair(s, a, b) ==
    IF Len(s) < 2 THEN s
    ELSE IF s[1] = a /\ s[2] = b THEN WithoutPair(Tail(Tail(s)), a, b)
    ELSE <<Head(s)>> \o WithoutPair(Tail(s), a, b)

\* entry.stem.replace("nmap.", "").replace("-tcp", "").replace("-udp", "")
SsEntryAddr(e) ==
    WithoutPair(WithoutPair(Without(Stem(e), "nmap."), "-", "tcp"), "-", "udp")

\* "Title" in line
IsCandidate(line) == \E i \in DOMAIN line : line[i] \in Recs \cup {"bad"}

\* line.endswith(",")
EndsWithComma(line) == line # <<>> /\ line[Len(line)] = ","

RECURSIVE LStrip(_)
LStrip(s) == IF s # <<>> /\ Head(s) = " " THEN LStrip(Tail(s)) ELSE s

\* s[:-1]
DropLast(s) == SubSeq(s, 1, Len(s) - 1)

RECURSIVE RStrip(_)
RStrip(s) == IF s # <<>> /\ s[Len(s)] = " " THEN RStrip(DropLast(s)) ELSE s

\* str.strip()
Strip(s) == RStrip(LStrip(s))

\* the dict a record text denotes
DictOf(r) == IF r = "R1"
             THEN [type |-> "exploits", title |-> "title1", path |-> "path1"]
             ELSE [type |-> "shellcodes", title |-> "title2", path |-> "path2"]

NoDict == [type |-> "", title |-> "", path |-> ""]

\* ast.literal_eval(text): white space between the tokens means nothing; a
\* dict literal gives the dict, dict literals with separators after or
\* between them give a tuple, every other text raises SyntaxError
literal_eval(text) ==
    LET core == Without(text, " ")
    IN  IF Len(core) = 1 /\ core[1] \in Recs
        THEN [kind |-> "dict", value |-> DictOf(core[1])]
        ELSE IF /\ Len(core) >= 2
                /\ \A i \in DOMAIN core :
                      IF i % 2 = 1 THEN core[i] \in Recs ELSE core[i] = ","
        THEN [kind |-> "tuple", value |-> NoDict]
        ELSE [kind |-> "SyntaxError", value |-> NoDict]

\* tmp_result: the separator is looked for at the end of the line as read,
\* and dropped from the stripped line
TmpResult(line) ==
    IF EndsWithComma(line) THEN literal_eval(DropLast(Strip(line)))
    ELSE literal_eval(Strip(line))

\* the SearchsploitResult made of tmp_result's Type, Title and Path
SsRecord(line) == TmpResult(line).value

\* what the body of the loop raises on a candidate line, if anything, tgt
\* being what the query returns: literal_eval raises, or tmp_result has no
\* get, or tgt has no searchsploit_results
LineError(line, tgt) ==
    IF TmpResult(line).kind = "SyntaxError" THEN "SyntaxError: invalid syntax"
    ELSE IF TmpResult(line).kind = "tuple"
         THEN "AttributeError: 'tuple' object has no attribute 'get'"
    ELSE IF tgt = None
         THEN "AttributeError: 'NoneType' object has no attribute 'searchsploit_results'"
    ELSE NoError

SsRunnable ==
    /\ pc = "run"
    /\ status.ss = "PENDING"
    /\ status.nmap \in {"DONE", "COMPLETE"}

\* luigi, at run time: the required task is not complete, and run is not
\* called
SsUnfulfilled ==
    /\ SsRunnable
    /\ ~NmapComplete
    /\ err' = [err EXCEPT !.ss = "RuntimeError: Unfulfilled dependencies at run time"]
    /\ everFailed' = [everFailed EXCEPT !.ss = TRUE]
    /\ status' = [status EXCEPT !.ss = "FAILED"]
    /\ UNCHANGED << cmdLocals, resolved, ssOut, dbOps, inputs, threads, disk, tables, invocation, pc, db,
                    highest_id, nmapLocals, todo, ssTodo, calls, appended, completed, firstRef >>

\* run starts: the xml artifacts of the nmap directory are globbed
SsRunBegin ==
    /\ SsRunnable
    /\ NmapComplete
    /\ status' = [status EXCEPT !.ss = "RUN"]
    /\ ssTodo' = DOMAIN files
    /\ UNCHANGED << cmdLocals, resolved, ssOut, dbOps, inputs, threads, disk, tables, invocation, pc, err, db,
                    highest_id, nmapLocals, todo, history >>

SsAtEntry(e) ==
    /\ status.ss = "RUN"
    /\ e \in ssTodo

\* there is no searchsploit executable: FileNotFoundError ends the run
SsNoExecutable(e) ==
    /\ SsAtEntry(e)
    /\ ~calls.ss
    /\ err' = [err EXCEPT !.ss = "FileNotFoundError"]
    /\ everFailed' = [everFailed EXCEPT !.ss = TRUE]
    /\ ssTodo' = ssTodo \ {e}
    /\ status' = [status EXCEPT !.ss = "FAILED"]
    /\ UNCHANGED << cmdLocals, resolved, ssOut, dbOps, inputs, threads, disk, tables, invocation, pc, db,
                    highest_id, nmapLocals, todo, calls, appended, completed, firstRef >>

\* the candidate lines of a stdout, in order
Candidates(out) == SelectSeq(out, IsCandidate)

RECURSIVE AppendAll(_, _)
\* the loop over the lines, for a Target that was found: one
\* SearchsploitResult per candidate line, in order
AppendAll(results, lines) ==
    IF lines = <<>> THEN results
    ELSE AppendAll(Append(results, SsRecord(Head(lines))), Tail(lines))

RECURSIVE GoodPrefix(_, _)
\* the candidate lines the loop goes through before one raises
GoodPrefix(cands, tgt) ==
    IF cands = <<>> \/ LineError(Head(cands), tgt) # NoError THEN <<>>
    ELSE <<Head(cands)>> \o GoodPrefix(Tail(cands), tgt)

\* what the loop over the lines raises, if anything
FirstError(cands, tgt) ==
    IF Len(GoodPrefix(cands, tgt)) = Len(cands) THEN NoError
    ELSE LineError(cands[Len(GoodPrefix(cands, tgt)) + 1], tgt)

\* the uses of the session in the loop over the lines: a query and an add
\* for every line gone through, and the query of a line that raises after
\* literal_eval
SsSessionUses(cands, tgt) ==
    2 * Len(GoodPrefix(cands, tgt))
    + (IF FirstError(cands, tgt) \in {NoError, "SyntaxError: invalid syntax"} THEN 0 ELSE 1)

\* the step of the loops for entry e and stdout out that ends with the
\* exception error: the records of the lines before the one that raises are appended
\* and added, the exception ends the run
SsEntryRaises(e, out, error) ==
    LET tgt == QueryTarget(SsEntryAddr(e))
        cands == Candidates(out)
    IN  /\ SsAtEntry(e)
        /\ FirstError(cands, tgt) = error
        /\ calls' = [calls EXCEPT !.ss = TRUE]
        /\ ssOut' = WithEntry(ssOut, e, out)
        /\ IF GoodPrefix(cands, tgt) = <<>>
           THEN UNCHANGED << searchsploit_results, appended >>
           ELSE /\ searchsploit_results' =
                     [searchsploit_results EXCEPT
                        ![tgt] = AppendAll(@, GoodPrefix(cands, tgt))]
                /\ appended' = [appended EXCEPT !.ss = TRUE]
        /\ dbOps' = [dbOps EXCEPT !.ss = @ + SsSessionUses(cands, tgt)]
        /\ err' = [err EXCEPT !.ss = error]
        /\ everFailed' = [everFailed EXCEPT !.ss = TRUE]
        /\ ssTodo' = ssTodo \ {e}
        /\ status' = [status EXCEPT !.ss = "FAILED"]
        /\ UNCHANGED << cmdLocals, resolved, inputs, threads, disk, nmap_results,
                        invocation, pc, db, highest_id, nmapLocals, todo,
                        completed, firstRef >>

\* searchsploit runs on the entry and the first candidate line of its
\* stdout finds first() returning None: tgt.searchsploit_results raises
\* AttributeError
SsEntryNoTarget(e) ==
    \E out \in Stdouts(ssPrints) :
        SsEntryRaises(e, out,
            "AttributeError: 'NoneType' object has no attribute 'searchsploit_results'")

\* searchsploit runs on the entry and a candidate line of its stdout is no
\* dict literal: literal_eval raises SyntaxError, or gives a tuple, whose
\* get raises AttributeError
SsEntryBadLine(e) ==
    \E out \in Stdouts(ssPrints) :
        \/ SsEntryRaises(e, out, "SyntaxError: invalid syntax")
        \/ SsEntryRaises(e, out, "AttributeError: 'tuple' object has no attribute 'get'")

\* searchsploit runs on the entry and every candidate line of its stdout
\* gives a SearchsploitResult, appended to the Target the query returned
SsEntry(e) ==
    /\ SsAtEntry(e)
    /\ calls' = [calls EXCEPT !.ss = TRUE]
    /\ \E out \in Stdouts(ssPrints) :
          /\ FirstError(Candidates(out), QueryTarget(SsEntryAddr(e))) = NoError
          /\ ssOut' = WithEntry(ssOut, e, out)
          /\ dbOps' = [dbOps EXCEPT !.ss = @ + 2 * Len(Candidates(out))]
          /\ IF Candidates(out) = <<>>
             THEN UNCHANGED << searchsploit_results, appended >>
             ELSE /\ searchsploit_results' =
                       [searchsploit_results EXCEPT
                          ![QueryTarget(SsEntryAddr(e))] = AppendAll(@, Candidates(out))]
                  /\ appended' = [appended EXCEPT !.ss = TRUE]
    /\ ssTodo' = ssTodo \ {e}
    /\ UNCHANGED << cmdLocals, resolved, inputs, threads, disk, nmap_results, invocation, pc, status,
                    err, db, highest_id, nmapLocals, todo, completed, everFailed, firstRef >>

\* the loop is over: self.db_mgr.close(), and run returns
SsClose ==
    /\ status.ss = "RUN"
    /\ ssTodo = {}
    /\ db' = [db EXCEPT !.ss = "closed"]
    /\ status' = [status EXCEPT !.ss = "DONE"]
    /\ completed' = [completed EXCEPT !.ss = IF @ = 0 THEN invocation ELSE @]
    /\ firstRef' = [firstRef EXCEPT !.ss = IF @ = <<>> THEN <<SsOutput>> ELSE @]
    /\ dbOps' = [dbOps EXCEPT !.ss = @ + 1]
    /\ UNCHANGED << cmdLocals, resolved, ssOut, inputs, threads, disk, tables, invocation, pc, err,
                    highest_id, nmapLocals, todo, ssTodo, calls, appended, everFailed >>

(***************************************************************************)
(* luigi: the end of an invocation, and the next one, a new process with   *)
(* the same parameters over the same disk and store.                       *)
(***************************************************************************)
\* nothing is left to run: the requested task is settled, or a task it
\* requires has failed
Settled ==
    \/ status.ss \in {"COMPLETE", "DONE", "FAILED"}
    \/ status.nmap = "FAILED"

\* the process ends and the pipeline is invoked again
NewInvocation ==
    /\ pc = "run"
    /\ Settled
    /\ invocation < MaxInvocations
    /\ invocation' = invocation + 1
    /\ pc' = "start"
    /\ threads' = threadsParam
    /\ status' = Unscheduled
    /\ err' = [t \in Tasks |-> NoError]
    /\ db' = NoInstance
    /\ highest_id' = [t \in Tasks |-> 0]
    /\ cmdState' = <<>>
    /\ runs' = <<>>
    /\ todo' = {}
    /\ ssTodo' = {}
    /\ sentry' = FALSE
    /\ nmr' = <<>>
    /\ calls' = [t \in Tasks |-> FALSE]
    /\ appended' = [t \in Tasks |-> FALSE]
    /\ ssOut' = <<>>
    /\ dbOps' = [t \in Tasks |-> 0]
    /\ UNCHANGED << cmdLocals, resolved, inputs, disk, tables, completed, everFailed, firstRef >>

Next ==
    \/ Schedule
    \/ RunMasscan
    \/ NmapRunTypeError
    \/ NmapRunValueError
    \/ NmapRunPoolError
    \/ NmapRunDispatch
    \/ \E e \in Targets \X Protocols : WorkerStart(e)
    \/ \E e \in Targets \X Protocols : WorkerNoExecutable(e)
    \/ \E e \in Targets \X Protocols : WorkerExitOk(e)
    \/ \E e \in Targets \X Protocols : WorkerExitFail(e)
    \/ NmapJoin
    \/ \E e \in Targets \X Protocols : ParseEntryIndexError(e)
    \/ \E e \in Targets \X Protocols : ParseEntryNoTarget(e)
    \/ \E e \in Targets \X Protocols : ParseEntryAppend(e)
    \/ ParseClose
    \/ SsUnfulfilled
    \/ SsRunBegin
    \/ \E e \in Targets \X Protocols : SsNoExecutable(e)
    \/ \E e \in Targets \X Protocols : SsEntryNoTarget(e)
    \/ \E e \in Targets \X Protocols : SsEntryBadLine(e)
    \/ \E e \in Targets \X Protocols : SsEntry(e)
    \/ SsClose
    \/ NewInvocation

Spec == Init /\ [][Next]_vars

(***************************************************************************)
(* parse_nmap_output on its own: the state in which run() calls it, after  *)
(* a dispatch that left any artifacts of up to MaxLen lines for one or two *)
(* commands, and the steps of its loop.                                    *)
(***************************************************************************)
RECURSIVE SeqsUpTo(_, _)
SeqsUpTo(S, n) == IF n = 0 THEN { <<>> }
                  ELSE LET shorter == SeqsUpTo(S, n - 1)
                       IN  shorter \cup { Append(q, x) : q \in shorter, x \in S }

Artifacts == SeqsUpTo(LineKinds, MaxLen)

ParseInit ==
    /\ threadsParam = [kind |-> "str", numeral |-> TRUE, val |-> 1]
    /\ threads = Coerced(threadsParam)
    /\ ip_dict = { <<T1, "tcp">>, <<T2, "tcp">> }
    /\ store \in { <<T1>>, <<T1, T2>> }
    /\ nmap_results = [t \in Targets |-> <<>>]
    /\ searchsploit_results = [t \in Targets |-> <<>>]
    /\ masscan = TRUE
    /\ dirExists = TRUE
    /\ \E d \in (SUBSET ip_dict) \ {{}} : files \in [d -> Artifacts]
    /\ invocation = 1
    /\ pc = "run"
    /\ status = [masscan |-> "DONE", nmap |-> "PARSE", ss |-> "PENDING"]
    /\ err = [t \in Tasks |-> NoError]
    /\ db = [nmap |-> "open", ss |-> "open"]
    /\ highest_id = [t \in Tasks |-> 0]
    /\ cmdState = [e \in ip_dict |-> IF e \in DOMAIN files THEN "done" ELSE "failed"]
    /\ runs = [e \in ip_dict |-> 1]
    /\ todo = DOMAIN files
    /\ ssTodo = {}
    /\ sentry = FALSE
    /\ nmr = <<>>
    /\ calls = [nmap |-> TRUE, ss |-> FALSE]
    /\ appended = [t \in Tasks |-> FALSE]
    /\ completed = [t \in Tasks |-> 0]
    /\ everFailed = [t \in Tasks |-> FALSE]
    /\ firstRef = [t \in Tasks |-> <<>>]
    /\ params = DefaultParams
    /\ ports = [e \in ip_dict |-> Ports]
    /\ ssPrints = "usual"
    /\ nmap_command = <<>>
    /\ commands = <<>>
    /\ cmdTodo = {}
    /\ resolved = [t \in Tasks |-> <<>>]
    /\ ssOut = <<>>
    /\ dbOps = [t \in Tasks |-> 1]

ParseNext ==
    \/ \E e \in Targets \X Protocols : ParseEntryIndexError(e)
    \/ \E e \in Targets \X Protocols : ParseEntryNoTarget(e)
    \/ \E e \in Targets \X Protocols : ParseEntryAppend(e)
    \/ ParseClose

ParseSpec == ParseInit /\ [][ParseNext]_vars

(***************************************************************************)
(* The loops of ThreadedNmapScan.run that build the commands, on their     *)
(* own: the state in which luigi calls run, for a mapping with its ports,  *)
(* and one step per (target, protocol) pair.  An argument of a command is  *)
(* the sequence of the tokens of its text.                                 *)
(***************************************************************************)
NmapCommandTemplate ==
    << <<"nmap">>, <<"--open">>, <<"PLACEHOLDER-IDX-2">>, <<"-n">>, <<"-sC">>,
       <<"-T">>, <<"4">>, <<"-sV">>, <<"-Pn">>, <<"-p">>,
       <<"PLACEHOLDER-IDX-10">>, <<"-oA">> >>

\* a scan type that does not look at the protocol
ScanFlagTcp(protocol) == <<"-sT">>

\* "-sT" if protocol == "tcp" else "-sU"
ScanFlag(protocol) == IF protocol = "tcp" THEN <<"-sT">> ELSE <<"-sU">>

RECURSIVE Join(_)
\* ",".join(q)
Join(q) == IF q = <<>> THEN <<>>
           ELSE IF Len(q) = 1 THEN q
           ELSE << Head(q), "," >> \o Join(Tail(q))

\* the orders in which a set may be iterated
Orders(S) == { q \in SeqsUpTo(S, Cardinality(S)) :
                 Len(q) = Cardinality(S) /\ Range(q) = S }

\* str(Path(self.output().path) / f"nmap.{target}-{protocol}")
OutputArg(e) == << NmapOutput.path, "/" >> \o Stem(e)

\* tmp_cmd at the end of the loop's body: a copy of the template with the
\* items of index 2 and 10 (the 3rd and the 11th) set, and two more items
Command(tmpl, e, order) ==
    [tmpl EXCEPT ![3] = ScanFlag(e[2]), ![11] = Join(order)]
        \o << OutputArg(e), e[1] >>

\* run coerces threads, loads the mapping and sets its locals
RunBuildBegin ==
    /\ NmapRunnable
    /\ IntError(threads) = NoError
    /\ threads' = Coerced(threads)
    /\ nmap_command' = NmapCommandTemplate
    /\ commands' = <<>>
    /\ cmdTodo' = ip_dict
    /\ status' = [status EXCEPT !.nmap = "BUILD"]
    /\ UNCHANGED << resolved, ssOut, dbOps, ssTodo, inputs, disk, tables, invocation,
                    pc, err, db, highest_id, nmapLocals, todo, history >>

\* the target the outer loop is at: that of the last command built
CurrentTarget == commands[Len(commands)][Len(commands[Len(commands)])]

\* one pass of the inner loop's body, for a pair not yet taken: the
\* protocols of one target are taken one after the other, the ports in the
\* order the set yields them
BuildCommand(e) ==
    /\ status.nmap = "BUILD"
    /\ e \in cmdTodo
    /\ IF commands = <<>> THEN TRUE
       ELSE e[1] = CurrentTarget \/ \A e2 \in cmdTodo : e2[1] # CurrentTarget
    /\ \E order \in Orders(ports[e]) :
          commands' = Append(commands, Command(nmap_command, e, order))
    /\ cmdTodo' = cmdTodo \ {e}
    /\ UNCHANGED << nmap_command, resolved, ssOut, dbOps, ssTodo, inputs, threads, disk,
                    tables, invocation, pc, status, err, db, highest_id,
                    nmapLocals, todo, history >>

CmdInit ==
    /\ threadsParam = [kind |-> "str", numeral |-> TRUE, val |-> 1]
    /\ threads = threadsParam
    /\ ip_dict \in IpDicts \ { {} }
    /\ ports \in [ip_dict -> PortSets]
    /\ store = << T1, T2 >>
    /\ params = DefaultParams
    /\ ssPrints = "usual"
    /\ nmap_results = [t \in Targets |-> <<>>]
    /\ searchsploit_results = [t \in Targets |-> <<>>]
    /\ masscan = TRUE
    /\ dirExists = FALSE
    /\ files = <<>>
    /\ invocation = 1
    /\ pc = "run"
    /\ status = [masscan |-> "DONE", nmap |-> "PENDING", ss |-> "PENDING"]
    /\ err = [t \in Tasks |-> NoError]
    /\ db = [nmap |-> "open", ss |-> "open"]
    /\ highest_id = [t \in Tasks |-> 0]
    /\ cmdState = <<>>
    /\ runs = <<>>
    /\ todo = {}
    /\ ssTodo = {}
    /\ sentry = FALSE
    /\ nmr = <<>>
    /\ calls = [t \in Tasks |-> FALSE]
    /\ appended = [t \in Tasks |-> FALSE]
    /\ completed = [t \in Tasks |-> 0]
    /\ everFailed = [t \in Tasks |-> FALSE]
    /\ firstRef = [t \in Tasks |-> <<>>]
    /\ nmap_command = <<>>
    /\ commands = <<>>
    /\ cmdTodo = {}
    /\ resolved = [t \in Tasks |-> <<>>]
    /\ ssOut = <<>>
    /\ dbOps = [t \in Tasks |-> 1]

CmdNext ==
    \/ RunBuildBegin
    \/ \E e \in Targets \X Protocols : BuildCommand(e)

CmdSpec == CmdInit /\ [][CmdNext]_vars

(***************************************************************************)
(* requires() of both tasks, on their own.  luigi knows a task instance by *)
(* its family and the parameter values it was built with; an attribute     *)
(* that run() overwrites later is no part of that.                         *)
(***************************************************************************)
\* SearchsploitScan as requires() sees it: its parameters, threads included
SsSelf == [ results_dir |-> params.results_dir, rate |-> params.rate,
            target_file |-> params.target_file, top_ports |-> params.top_ports,
            interface |-> params.interface, ports |-> params.ports,
            db_location |-> params.db_location, threads |-> threadsParam ]

\* args that mix up ports and top_ports
SsRequiresArgsMixed(self) ==
    [ rate |-> self.rate, ports |-> self.top_ports, threads |-> self.threads,
      top_ports |-> self.ports, interface |-> self.interface,
      target_file |-> self.target_file, results_dir |-> self.results_dir,
      db_location |-> self.db_location ]

\* args of SearchsploitScan.requires
SsRequiresArgs(self) ==
    [ rate |-> self.rate, ports |-> self.ports, threads |-> self.threads,
      top_ports |-> self.top_ports, interface |-> self.interface,
      target_file |-> self.target_file, results_dir |-> self.results_dir,
      db_location |-> self.db_location ]

\* args of ThreadedNmapScan.requires
NmapRequiresArgs(self) ==
    [ results_dir |-> self.results_dir, rate |-> self.rate,
      target_file |-> self.target_file, top_ports |-> self.top_ports,
      interface |-> self.interface, ports |-> self.ports,
      db_location |-> self.db_location ]

\* SearchsploitScan.requires(): ThreadedNmapScan(**args)
SsRequires ==
    /\ Len(resolved.ss) < MaxResolves
    /\ resolved' = [resolved EXCEPT !.ss =
                       Append(@, [family |-> "ThreadedNmapScan",
                                  kwargs |-> SsRequiresArgs(SsSelf)])]
    /\ UNCHANGED << cmdLocals, ssOut, dbOps, ssTodo, inputs, threads, disk, tables,
                    invocation, pc, status, err, db, highest_id, nmapLocals,
                    todo, history >>

\* ThreadedNmapScan.requires(), of the instance SearchsploitScan requires:
\* ParseMasscanOutput(**args)
NmapRequires ==
    /\ resolved.ss # <<>>
    /\ Len(resolved.nmap) < MaxResolves
    /\ resolved' = [resolved EXCEPT !.nmap =
                       Append(@, [family |-> "ParseMasscanOutput",
                                  kwargs |-> NmapRequiresArgs(resolved.ss[1].kwargs)])]
    /\ UNCHANGED << cmdLocals, ssOut, dbOps, ssTodo, inputs, threads, disk, tables,
                    invocation, pc, status, err, db, highest_id, nmapLocals,
                    todo, history >>

\* ThreadedNmapScan.run overwrites the instance's threads attribute
RunCoerce ==
    /\ resolved.ss # <<>>
    /\ threads = threadsParam
    /\ IntError(threads) = NoError
    /\ threads' = Coerced(threads)
    /\ UNCHANGED << cmdLocals, resolved, ssOut, dbOps, ssTodo, inputs, disk, tables,
                    invocation, pc, status, err, db, highest_id, nmapLocals,
                    todo, history >>

ReqInit ==
    /\ threadsParam \in ThreadVals
    /\ threads = threadsParam
    /\ params \in ParamValues
    /\ ip_dict = {}
    /\ ports = <<>>
    /\ store = <<>>
    /\ ssPrints = "usual"
    /\ nmap_results = [t \in Targets |-> <<>>]
    /\ searchsploit_results = [t \in Targets |-> <<>>]
    /\ masscan = FALSE
    /\ dirExists = FALSE
    /\ files = <<>>
    /\ invocation = 1
    /\ pc = "start"
    /\ status = Unscheduled
    /\ err = [t \in Tasks |-> NoError]
    /\ db = [nmap |-> "open", ss |-> "open"]
    /\ highest_id = [t \in Tasks |-> 0]
    /\ cmdState = <<>>
    /\ runs = <<>>
    /\ todo = {}
    /\ ssTodo = {}
    /\ sentry = FALSE
    /\ nmr = <<>>
    /\ calls = [t \in Tasks |-> FALSE]
    /\ appended = [t \in Tasks |-> FALSE]
    /\ completed = [t \in Tasks |-> 0]
    /\ everFailed = [t \in Tasks |-> FALSE]
    /\ firstRef = [t \in Tasks |-> <<>>]
    /\ nmap_command = <<>>
    /\ commands = <<>>
    /\ cmdTodo = {}
    /\ resolved = [t \in Tasks |-> <<>>]
    /\ ssOut = <<>>
    /\ dbOps = [t \in Tasks |-> 1]

ReqNext ==
    \/ SsRequires
    \/ NmapRequires
    \/ RunCoerce

ReqSpec == ReqInit /\ [][ReqNext]_vars

(***************************************************************************)
(* The loops of SearchsploitScan.run on their own: the state in which the  *)
(* loop over the xml artifacts starts, after a run of ThreadedNmapScan     *)
(* that went through to its end in the same invocation, with a             *)
(* searchsploit that prints candidate lines in every form.                 *)
(***************************************************************************)
SsInit ==
    /\ threadsParam = [kind |-> "str", numeral |-> TRUE, val |-> 1]
    /\ threads = Coerced(threadsParam)
    /\ store \in { << T1 >>, << T1, T2 >> }
    /\ ip_dict \in { d \in IpDicts \ { {} } : \A e \in d : e[1] \in Range(store) }
    /\ ports = [e \in ip_dict |-> Ports]
    /\ params = DefaultParams
    /\ ssPrints = "any"
    /\ nmap_results = [t \in Targets |->
                         IF t = store[1]
                         THEN [i \in 1..Cardinality(ip_dict) |-> <<"x">>]
                         ELSE <<>>]
    /\ searchsploit_results = [t \in Targets |-> <<>>]
    /\ masscan = TRUE
    /\ dirExists = TRUE
    /\ files = [e \in ip_dict |-> <<"H", "x", "E">>]
    /\ invocation = 1
    /\ pc = "run"
    /\ status = [masscan |-> "DONE", nmap |-> "DONE", ss |-> "RUN"]
    /\ err = [t \in Tasks |-> NoError]
    /\ db = [nmap |-> "closed", ss |-> "open"]
    /\ highest_id = [t \in Tasks |-> 0]
    /\ cmdState = [e \in ip_dict |-> "done"]
    /\ runs = [e \in ip_dict |-> 1]
    /\ todo = {}
    /\ ssTodo = DOMAIN files
    /\ sentry = FALSE
    /\ nmr = [e \in ip_dict |-> <<"x">>]
    /\ calls = [nmap |-> TRUE, ss |-> FALSE]
    /\ appended = [nmap |-> TRUE, ss |-> FALSE]
    /\ completed = [nmap |-> 1, ss |-> 0]
    /\ everFailed = [t \in Tasks |-> FALSE]
    /\ firstRef = [nmap |-> <<NmapOutput>>, ss |-> <<>>]
    /\ nmap_command = <<>>
    /\ commands = <<>>
    /\ cmdTodo = {}
    /\ resolved = [t \in Tasks |-> <<>>]
    /\ ssOut = <<>>
    /\ dbOps = [nmap |-> 2 + 2 * Cardinality(ip_dict), ss |-> 1]

SsNext ==
    \/ \E e \in Targets \X Protocols : SsEntryBadLine(e)
    \/ \E e \in Targets \X Protocols : SsEntry(e)
    \/ SsClose

SsSpec == SsInit /\ [][SsNext]_vars

(***************************************************************************)
(* Properties of the specification.                                        *)
(***************************************************************************)
OutputRef(t) == IF t = "nmap" THEN NmapOutput ELSE SsOutput

\* the instance of task t exists in this invocation and a run of it went
\* through to its end in an earlier one
CompleteEarlier(t) ==
    /\ completed[t] # 0
    /\ completed[t] < invocation
    /\ db[t] # "none"

\* C1: a task instance that has run to completion and is invoked again with
\* the same parameters starts no external tool, appends no store record and
\* returns the output reference of its first run.
C1_Idempotence ==
    \A t \in Tasks :
        CompleteEarlier(t) =>
            /\ ~calls[t]
            /\ ~appended[t]
            /\ firstRef[t] = <<OutputRef(t)>>

\* the run of SearchsploitScan was entered in this invocation
SsEntered ==
    \/ status.ss \in {"RUN", "DONE"}
    \/ calls.ss
    \/ ssTodo # {}

\* C2: once a run of ThreadedNmapScan has failed, the completion check of
\* its output does not report it complete, in that invocation or a later
\* one, and SearchsploitScan is not run.
C2_FailedOutputAbsent ==
    everFailed.nmap => (~NmapComplete /\ ~SsEntered)

\* correlation has begun: parse_nmap_output is running or has read an artifact
CorrelationBegun ==
    \/ status.nmap = "PARSE"
    \/ nmr # <<>>
    \/ appended.nmap

\* C3: correlation never begins while a dispatched nmap invocation is
\* running or not yet started: every submitted command has finished before
\* the first artifact is read.
C3_JoinBarrier ==
    CorrelationBegun =>
        \A e \in ip_dict : e \in DOMAIN cmdState /\ cmdState[e] \in {"done", "failed"}

\* C3 happens: two commands ran one after the other on a pool of one
\* worker, one of them failed, and the first artifact has been read
C3_Witness ==
    /\ status.nmap = "PARSE"
    /\ threads.val = 1
    /\ Cardinality(DOMAIN cmdState) >= 2
    /\ \E e \in DOMAIN cmdState : cmdState[e] = "failed"
    /\ nmr # <<>>

\* the NmapResult made of entry e is among the nmap_results of a Target
Persisted(e) ==
    /\ e \in DOMAIN nmr
    /\ \E t \in Targets : \E i \in DOMAIN nmap_results[t] : nmap_results[t][i] = nmr[e]

\* C4: when one invocation of a batch fails, every other invocation is
\* still executed to its end and the artifacts they produced are still
\* correlated into the store.
C4_FailureIsolation ==
    ( /\ status.nmap \in {"DONE", "FAILED"}
      /\ \E e \in DOMAIN cmdState : cmdState[e] = "failed" )
    => \A e \in DOMAIN cmdState :
          /\ cmdState[e] \in {"done", "failed"}
          /\ cmdState[e] = "done" => Persisted(e)

\* the glob loop of parse_nmap_output has taken entry e
Visited(e) ==
    /\ status.nmap \in {"PARSE", "DONE", "FAILED"}
    /\ e \in DOMAIN files
    /\ e \notin todo

IsMarker(line) == IsHeader(line) \/ IsEpilog(line)

\* the lines hold a start marker at i and an end marker at j, with nothing
\* but body lines between them; i is the first start marker
FramedAt(lines, i, j) ==
    /\ i < j
    /\ IsHeader(lines[i])
    /\ IsEpilog(lines[j])
    /\ \A k \in 1..(i - 1) : ~IsHeader(lines[k])
    /\ \A k \in (i + 1)..(j - 1) : ~IsMarker(lines[k])

\* C5: of an artifact that holds a start marker line, N body lines and an
\* end marker line, exactly the N body lines are captured, in order and
\* without the marker lines, whatever comes before the start marker and
\* after the end marker.
C5_ParserRoundTrip ==
    \A e \in DOMAIN files :
        \A i, j \in DOMAIN files[e] :
            (Visited(e) /\ FramedAt(files[e], i, j)) =>
                /\ e \in DOMAIN nmr
                /\ nmr[e] = SubSeq(files[e], i + 1, j - 1)

NoHeader(lines) == \A k \in DOMAIN lines : ~IsHeader(lines[k])

\* C6: of an artifact without a start marker line, with or without an end
\* marker line, the captured body is empty, nothing is raised, and an empty
\* scan result is persisted for the target.
C6_ParserRobust ==
    \A e \in DOMAIN files :
        (Visited(e) /\ NoHeader(files[e])) =>
            /\ e \in DOMAIN nmr
            /\ nmr[e] = <<>>
            /\ QueryTarget(NmapEntryAddr(e)) # None => Persisted(e)

ZeroThreads ==
    /\ threadsParam.kind = "str"
    /\ threadsParam.numeral
    /\ threadsParam.val = 0

\* C7: with a threads value of zero, run aborts with a diagnostic: it is
\* never left waiting in the dispatch, and no nmap invocation is started.
C7_ZeroThreadsAborts ==
    ZeroThreads =>
        /\ ~calls.nmap
        /\ cmdState = <<>>
        /\ files = <<>>
        /\ status.nmap \in {"UNSCHEDULED", "PENDING", "FAILED", "COMPLETE"}
        /\ status.nmap = "FAILED" =>
              err.nmap = "ValueError: max_workers must be greater than 0"

\* C7 happens: a run over a mapping that is not empty, with threads zero,
\* has ended with the pool's ValueError
C7_Witness ==
    /\ ZeroThreads
    /\ ip_dict # {}
    /\ status.nmap = "FAILED"
    /\ err.nmap = "ValueError: max_workers must be greater than 0"

\* int() does not take the threads parameter for an integer
NotCoercible(t) == t.kind = "NoneType" \/ (t.kind = "str" /\ ~t.numeral)

\* C8: with a threads parameter that cannot be coerced to an integer, run
\* ends at once with a reported error and has started no work: no command
\* is dispatched, the output directory is not made, no store record is
\* written; the instance is not complete, and the upstream instance stays
\* complete.
C8_BadThreadsFailsBeforeWork ==
    NotCoercible(threadsParam) =>
        /\ cmdState = <<>>
        /\ ~calls.nmap
        /\ ~dirExists
        /\ files = <<>>
        /\ ~appended.nmap
        /\ \A t \in Targets : nmap_results[t] = <<>>
        /\ status.nmap \in {"UNSCHEDULED", "PENDING", "DONE", "FAILED"}
        /\ status.nmap \in {"DONE", "FAILED"} =>
              /\ err.nmap # NoError
              /\ ~NmapComplete
              /\ masscan
              /\ status.masscan \in {"DONE", "COMPLETE"}

\* C8 happens: in a second invocation, with the upstream instance found
\* complete, the run has ended on the threads parameter again
C8_Witness ==
    /\ NotCoercible(threadsParam)
    /\ invocation = 2
    /\ status.masscan = "COMPLETE"
    /\ status.nmap \in {"DONE", "FAILED"}
    /\ err.nmap # NoError

\* C9: an address that matches no Target is reported for its record and
\* does not abort the batch: neither run ends on it.
C9_CorrelationErrorIsolated ==
    /\ err.nmap = "AttributeError: 'NoneType' object has no attribute 'nmap_results'"
          => status.nmap # "FAILED"
    /\ err.ss = "AttributeError: 'NoneType' object has no attribute 'searchsploit_results'"
          => status.ss # "FAILED"

\* the run of task t was entered and has been left
RunLeft(t) ==
    /\ status[t] \in {"DONE", "FAILED"}
    /\ err[t] # "RuntimeError: Unfulfilled dependencies at run time"

\* C10: the store connection of a task instance is released when its run
\* is left, on every path, for both tasks.
C10_ConnectionReleased ==
    \A t \in Tasks : RunLeft(t) => db[t] = "closed"

\* the commands built for the pair e: those with its output name and target
CommandsOf(e) ==
    { k \in DOMAIN commands :
        /\ commands[k][Len(commands[k])] = e[1]
        /\ commands[k][Len(commands[k]) - 1] =
              << "nmap-results", "/", "nmap." >> \o e[1] \o << "-", e[2] >> }

\* the argument is the comma-join of exactly the ports of the set, each once
IsJoinOf(arg, S) ==
    /\ Len(arg) = 2 * Cardinality(S) - 1
    /\ \A i \in DOMAIN arg : IF i % 2 = 1 THEN arg[i] \in S ELSE arg[i] = ","
    /\ { arg[i] : i \in { j \in DOMAIN arg : j % 2 = 1 } } = S

\* C11: for every (target, protocol, ports) of the mapping that the loops
\* have taken, exactly one command is built; its scan type is -sT when the
\* protocol is tcp and -sU otherwise, the argument after -p is the
\* comma-join of exactly its ports, the argument after -oA is
\* <output dir>/nmap.<target>-<protocol>, its last argument is the target
\* and the rest is the template's; the template is never altered.
C11_CommandVector ==
    status.nmap = "BUILD" =>
        /\ nmap_command = NmapCommandTemplate
        /\ Len(commands) = Cardinality(ip_dict \ cmdTodo)
        /\ \A e \in ip_dict \ cmdTodo :
              /\ Cardinality(CommandsOf(e)) = 1
              /\ \A k \in CommandsOf(e) :
                    LET c == commands[k]
                    IN  /\ Len(c) = 14
                        /\ c[3] = (IF e[2] = "tcp" THEN <<"-sT">> ELSE <<"-sU">>)
                        /\ c[10] = <<"-p">>
                        /\ IsJoinOf(c[11], ports[e])
                        /\ c[12] = <<"-oA">>
                        /\ c[14] = e[1]
                        /\ \A i \in (1..12) \ {3, 11} : c[i] = NmapCommandTemplate[i]

\* C11 happens: the loops are over for a mapping of two pairs, one of them
\* udp and one with two ports
C11_Witness ==
    /\ status.nmap = "BUILD"
    /\ cmdTodo = {}
    /\ Len(commands) = 2
    /\ \E e \in ip_dict : e[2] = "udp"
    /\ \E e \in ip_dict : Cardinality(ports[e]) = 2

RECURSIVE SumOver(_, _)
\* the sum of f over the set S
SumOver(f, S) == IF S = {} THEN 0
                 ELSE LET x == CHOOSE y \in S : TRUE
                      IN  f[x] + SumOver(f, S \ {x})

\* the entries whose stdout SearchsploitScan.run has read and whose name
\* holds the address t
SsEntriesOf(t) == { e \in DOMAIN ssOut : SsEntryAddr(e) = t }

\* the candidate lines of entry e that the loop went through, the Target
\* with the entry's address being present
SsLinesDone(e) == GoodPrefix(Candidates(ssOut[e]), SsEntryAddr(e))

\* C12: for a Target present with an address, each candidate line of the
\* output for that address gives exactly one new record, with the line's
\* type, title and path, in that Target's searchsploit_results, and no
\* record in those of another Target.
C12_ExploitCorrelation ==
    invocation = 1 =>
        \A t \in Targets :
            /\ Len(searchsploit_results[t]) =
                  IF t \in Range(store)
                  THEN SumOver([e \in SsEntriesOf(t) |-> Len(SsLinesDone(e))],
                               SsEntriesOf(t))
                  ELSE 0
            /\ \A i \in DOMAIN searchsploit_results[t] :
                  \E e \in SsEntriesOf(t) : \E k \in DOMAIN SsLinesDone(e) :
                      searchsploit_results[t][i] = SsRecord(SsLinesDone(e)[k])

\* C13: after a run of ThreadedNmapScan that went through to its end, every
\* Target holds exactly one NmapResult for every artifact
\* nmap.<address>-<protocol>.nmap that bears its address, and no other.
C13_OneResultPerArtifact ==
    ( /\ invocation = 1
      /\ status.nmap = "DONE"
      /\ err.nmap = NoError )
    => \A t \in Targets :
          Len(nmap_results[t]) =
              Cardinality({ e \in DOMAIN files : NmapEntryAddr(e) = t })

\* the run of ThreadedNmapScan was entered in this invocation
NmapEntered == status.nmap \in {"BUILD", "DISPATCH", "PARSE", "DONE", "FAILED"}

\* C14: the run of SearchsploitScan is never started before a run of
\* ThreadedNmapScan has gone through dispatch, barrier and correlation to
\* its end, and the run of ThreadedNmapScan is never started before
\* ParseMasscanOutput has completed.
C14_ChainSequential ==
    /\ SsEntered => (completed.nmap # 0 /\ status.nmap \in {"DONE", "COMPLETE"})
    /\ NmapEntered => (masscan /\ status.masscan \in {"DONE", "COMPLETE"})

\* C15: during the dispatch never more than threads nmap invocations run
\* at once, and every submitted command is executed exactly once: no
\* command is ever run twice, and when the dispatch is left every command
\* of the mapping has been run once and has ended.
C15_BoundedConcurrency ==
    /\ (Running # {}) => (Cardinality(Running) <= threads.val)
    /\ \A e \in DOMAIN runs :
          /\ runs[e] <= 1
          /\ (runs[e] = 0) <=> (cmdState[e] = "queued")
    /\ (status.nmap \in {"PARSE", "DONE"} /\ err.nmap = NoError)
          => ( /\ DOMAIN cmdState = ip_dict
               /\ Finished = ip_dict
               /\ \A e \in ip_dict : runs[e] = 1 )

\* C15 happens: the pool of one worker is full and a command waits
C15_Witness ==
    /\ status.nmap = "DISPATCH"
    /\ threads.val = 1
    /\ Cardinality(Running) = 1
    /\ \E e \in DOMAIN cmdState : cmdState[e] = "queued"

\* a command of the instance is queued or running
Dispatching == \E e \in DOMAIN cmdState : cmdState[e] \in {"queued", "running"}

\* C16, as stated: the session of the ThreadedNmapScan instance is used only
\* after the dispatch barrier, during correlation.
C16_StoreOnlyDuringCorrelation ==
    dbOps.nmap > 0 => (status.nmap \in {"PARSE", "DONE", "FAILED"} /\ ~Dispatching)

\* C16, amended: the session of the ThreadedNmapScan instance is used once
\* when the instance is built, before any command is submitted, and then
\* only after the dispatch barrier, during correlation: while a command is
\* queued or running, and in every step of a worker, it is not used.
C16_StoreNotDuringDispatch ==
    /\ (Dispatching \/ status.nmap \in {"PENDING", "BUILD", "DISPATCH"}) => dbOps.nmap = 1
    /\ dbOps.nmap > 1 => (status.nmap \in {"PARSE", "DONE", "FAILED"} /\ ~Dispatching)

\* C16 happens: two commands were dispatched, the barrier is passed and the
\* correlation has queried and added a Target
C16_Witness ==
    /\ status.nmap = "PARSE"
    /\ Cardinality(DOMAIN cmdState) = 2
    /\ dbOps.nmap = 3

\* the fields ParseMasscanOutput requires
SharedFields == { "results_dir", "rate", "target_file", "top_ports",
                  "interface", "ports", "db_location" }

\* C17: the parent a requires() returns is built with every parent-required
\* field at exactly the child's value (and threads, for ThreadedNmapScan),
\* so every call of the same requires() returns the same instance,
\* whatever run() has done to the threads attribute meanwhile.
C17_ParameterPropagation ==
    /\ \A i \in DOMAIN resolved.ss :
          /\ resolved.ss[i].family = "ThreadedNmapScan"
          /\ DOMAIN resolved.ss[i].kwargs = SharedFields \cup {"threads"}
          /\ \A f \in SharedFields : resolved.ss[i].kwargs[f] = params[f]
          /\ resolved.ss[i].kwargs.threads = threadsParam
          /\ resolved.ss[i] = resolved.ss[1]
    /\ \A i \in DOMAIN resolved.nmap :
          /\ resolved.nmap[i].family = "ParseMasscanOutput"
          /\ DOMAIN resolved.nmap[i].kwargs = SharedFields
          /\ \A f \in SharedFields : resolved.nmap[i].kwargs[f] = params[f]
          /\ resolved.nmap[i] = resolved.nmap[1]

\* C17 happens: each requires() was called twice, the second time after
\* run overwrote the threads attribute with another value
C17_Witness ==
    /\ Len(resolved.ss) >= 2
    /\ Len(resolved.nmap) >= 2
    /\ threads # threadsParam
    /\ params.ports # params.top_ports

\* the candidate lines of a stdout that the loop reaches: those it goes
\* through and the one that raises
SsLinesReached(e) ==
    LET cands == Candidates(ssOut[e])
        n == Len(GoodPrefix(cands, QueryTarget(SsEntryAddr(e))))
    IN  SubSeq(cands, 1, IF n < Len(cands) THEN n + 1 ELSE n)

\* a record is among the searchsploit_results of some Target
SsPersisted(r) ==
    \E t \in Targets : \E i \in DOMAIN searchsploit_results[t] :
        searchsploit_results[t][i] = r

\* C18: a candidate line that is no literal does not end the run, and the
\* record of every candidate line that can be parsed, before or after it
\* in the stdout of an artifact that was read, is persisted.
C18_MalformedLineSkipped ==
    /\ err.ss # "SyntaxError: invalid syntax"
    /\ \A e \in DOMAIN ssOut :
          \A k \in DOMAIN Candidates(ssOut[e]) :
              ( /\ TmpResult(Candidates(ssOut[e])[k]).kind = "dict"
                /\ FirstError(Candidates(ssOut[e]), QueryTarget(SsEntryAddr(e)))
                      \in {NoError, "SyntaxError: invalid syntax"} )
                  => SsPersisted(SsRecord(Candidates(ssOut[e])[k]))

\* C19: every candidate line the loop reaches, with or without a trailing
\* separator and with or without white space around it, is parsed to the
\* record of the bare line.
C19_SeparatorStripped ==
    \A e \in DOMAIN ssOut :
        \A k \in DOMAIN SsLinesReached(e) :
            \A r \in Recs :
                SsLinesReached(e)[k] \in Variants(r)
                    => TmpResult(SsLinesReached(e)[k]) = TmpResult(<<r>>)

\* C20: in a pass that has raised nothing, the body captured for an
\* artifact is that of its own lines, read with the capture state 'not
\* inside the markers', whatever the artifacts read before it held.
C20_CaptureStatePerArtifact ==
    \A e \in DOMAIN files :
        (Visited(e) /\ err.nmap = NoError /\ ~ParseLines(files[e], FALSE).raised) =>
            /\ e \in DOMAIN nmr
            /\ nmr[e] = ParseLines(files[e], FALSE).text
====
